---- MODULE Spec2Model ----
(***************************************************************************)
(* Hospital Management API (src/main.py, src/schemas.py): three            *)
(* collections of documents (patient, doctor, appointment) behind          *)
(* create/list routes, a best-effort existence check on appointment        *)
(* creation, and a counts route.                                           *)
(*                                                                         *)
(* Values.  Every JSON / Python value is a record [t, s, n]: t is the      *)
(* type tag, s the text as a sequence of tokens, n the number the value    *)
(* carries.  A 24-hex-digit string is Str-tagged with s = <<"hex24">> and  *)
(* n the 12-byte value it spells; an ISO-8601 string is s = <<"iso8601">>  *)
(* and n the instant it spells.  A request body is a function from the     *)
(* field names it carries to values (an omitted field is not in its        *)
(* DOMAIN).                                                                *)
(***************************************************************************)
EXTENDS Integers, Sequences, FiniteSets, TLC

VARIABLES
    db,               \* database.db is not None (connection made at import)
    ObjectIdImported, \* main.py:12-15: bson.ObjectId was importable
    patient,          \* db["patient"], documents in insertion order
    doctor,           \* db["doctor"]
    appointment,      \* db["appointment"]
    nextOid,          \* the store's identifier generator
    issued,           \* history: collection, id and body of every create that returned an id
    last,             \* the last request served and its response
    threads           \* per worker thread: where it is in create_appointment

vars == <<db, ObjectIdImported, patient, doctor, appointment, nextOid, issued, last, threads>>

-----------------------------------------------------------------------------
\* Bounds of the model.

\* Most documents the store holds, over the three collections.
MaxDocs == 3

-----------------------------------------------------------------------------
\* Program constants.

duration_default == 30
duration_ge == 5
duration_le == 240
limit_default == 100

-----------------------------------------------------------------------------
\* Values.

Str(toks) == [t |-> "str", s |-> toks, n |-> 0]
Num(k) == [t |-> "int", s |-> <<>>, n |-> k]
None == [t |-> "null", s |-> <<>>, n |-> 0]
HexStr(k) == [t |-> "str", s |-> <<"hex24">>, n |-> k]
IsoStr(k) == [t |-> "str", s |-> <<"iso8601">>, n |-> k]
ObjectIdValue(k) == [t |-> "ObjectId", s |-> <<>>, n |-> k]
DateTime(k) == [t |-> "datetime", s |-> <<>>, n |-> k]

\* str(v) of a store identifier: its 24-hex-digit spelling.
str(v) == IF v.t = "ObjectId" THEN HexStr(v.n) ELSE v

\* datetime.isoformat()
isoformat(v) == IsoStr(v.n)

\* bson.ObjectId(s) accepts a 24-hex-digit string and raises InvalidId otherwise.
ObjectId_accepts(v) == v.t = "str" /\ v.s = <<"hex24">>

ObjectId(v) == ObjectIdValue(v.n)

\* EmailStr: local part, "@", domain, each non-empty and without a further "@".
IsEmail(toks) ==
    /\ Len(toks) = 3
    /\ toks[2] = "@"
    /\ toks[1] \notin {"", "@"}
    /\ toks[3] \notin {"", "@"}

IsIso(toks) == toks = <<"iso8601">>

-----------------------------------------------------------------------------
\* Record schemas (src/schemas.py).

Required(type) == [type |-> type, required |-> TRUE, default |-> None, ge |-> 0, le |-> 0]
Optional(type) == [type |-> type, required |-> FALSE, default |-> None, ge |-> 0, le |-> 0]
Default(type, v) == [type |-> type, required |-> FALSE, default |-> v, ge |-> 0, le |-> 0]

Patient ==
    [first_name |-> Required("str"),
     last_name |-> Required("str"),
     email |-> Optional("Optional[EmailStr]"),
     phone |-> Optional("Optional[str]"),
     date_of_birth |-> Optional("Optional[str]"),
     gender |-> Optional("Optional[str]"),
     address |-> Optional("Optional[str]"),
     insurance_provider |-> Optional("Optional[str]"),
     insurance_number |-> Optional("Optional[str]"),
     notes |-> Optional("Optional[str]")]

Doctor ==
    [first_name |-> Required("str"),
     last_name |-> Required("str"),
     email |-> Optional("Optional[EmailStr]"),
     phone |-> Optional("Optional[str]"),
     department |-> Required("str"),
     title |-> Optional("Optional[str]")]

\* Variant: the upper bound exclusive of nothing, le one too large.
duration_minutes_field_le_off_by_one ==
    [type |-> "int", required |-> FALSE, default |-> Num(duration_default),
     ge |-> duration_ge, le |-> duration_le + 1]

duration_minutes_field ==
    [type |-> "int", required |-> FALSE, default |-> Num(duration_default),
     ge |-> duration_ge, le |-> duration_le]

Appointment ==
    [patient_id |-> Required("str"),
     doctor_id |-> Required("str"),
     start_time |-> Required("datetime"),
     duration_minutes |-> duration_minutes_field,
     reason |-> Optional("Optional[str]"),
     status |-> Default("str", Str(<<"scheduled">>))]

\* Variant: the e-mail is taken as any string.
FieldAccepts_any_email(f, v) ==
    CASE f.type = "str" -> v.t = "str"
      [] f.type = "Optional[str]" -> v.t \in {"str", "null"}
      [] f.type = "Optional[EmailStr]" -> v.t \in {"str", "null"}
      [] f.type = "int" -> v.t = "int" /\ v.n >= f.ge /\ v.n <= f.le
      [] f.type = "datetime" -> v.t = "str" /\ IsIso(v.s)

\* One field's value against its declared type and constraints.
FieldAccepts(f, v) ==
    CASE f.type = "str" -> v.t = "str"
      [] f.type = "Optional[str]" -> v.t \in {"str", "null"}
      [] f.type = "Optional[EmailStr]" -> v.t = "null" \/ (v.t = "str" /\ IsEmail(v.s))
      [] f.type = "int" -> v.t = "int" /\ v.n >= f.ge /\ v.n <= f.le
      [] f.type = "datetime" -> v.t = "str" /\ IsIso(v.s)

\* The fields a body fails on: a required field it omits, or a field whose value
\* the schema does not accept.
ValidationErrors(schema, body) ==
    {k \in DOMAIN schema :
        IF k \in DOMAIN body THEN ~FieldAccepts(schema[k], body[k]) ELSE schema[k].required}

\* The value a field has in the validated model.
Coerce(f, v) == IF f.type = "datetime" THEN DateTime(v.n) ELSE v

\* The validated model of a body: every field of the schema, defaults filled in.
Validated(schema, body) ==
    [k \in DOMAIN schema |->
        IF k \in DOMAIN body THEN Coerce(schema[k], body[k]) ELSE schema[k].default]

-----------------------------------------------------------------------------
\* Exceptions and their HTTP outcome.

NoException == [class |-> "none", status_code |-> 0, detail |-> ""]
HTTPException(status_code, detail) ==
    [class |-> "HTTPException", status_code |-> status_code, detail |-> detail]
InvalidId == [class |-> "InvalidId", status_code |-> 0, detail |-> "not a valid ObjectId"]
StoreUnavailable == [class |-> "Exception", status_code |-> 0, detail |-> "Database not available"]

\* Python's class hierarchy: every exception class used here derives from Exception.
IsInstanceOfException(exc) == exc.class \in {"Exception", "HTTPException", "InvalidId"}

\* The status the framework answers with when exc leaves the handler.
StatusOf(exc) == IF exc.class = "HTTPException" THEN exc.status_code ELSE 500

-----------------------------------------------------------------------------
\* Document store adapter (database.create_document / get_documents).

TotalDocs == Len(patient) + Len(doctor) + Len(appointment)

\* The document insert stores: the record's fields and a fresh identifier.
NewDocument(data) ==
    [k \in DOMAIN data \cup {"_id"} |-> IF k = "_id" THEN ObjectIdValue(nextOid) ELSE data[k]]

\* find(collection, {}, limit): up to limit documents, in insertion order.  The
\* contract speaks of a count; what a limit below zero returns is not fixed by it,
\* so any prefix is allowed there.
get_documents(collection, limit) ==
    IF limit >= 0
    THEN {SubSeq(collection, 1, IF limit < Len(collection) THEN limit ELSE Len(collection))}
    ELSE {SubSeq(collection, 1, m) : m \in 0..Len(collection)}

\* collection.find_one({"_id": oid}): a matching document, or None.
find_one(collection, oid) == \E i \in 1..Len(collection) : collection[i]["_id"] = oid

count_documents(collection) == Len(collection)

-----------------------------------------------------------------------------
\* Serialization helper.

serialize_value(k, v) ==
    IF k = "_id" THEN str(v)
    ELSE IF v.t = "datetime" THEN isoformat(v)
    ELSE v

\* Variant: the identifier converted but left under its store name.
serialize_doc_id_not_renamed(doc) == [k \in DOMAIN doc |-> serialize_value(k, doc[k])]

serialize_doc(doc) ==
    [k \in {IF j = "_id" THEN "id" ELSE j : j \in DOMAIN doc} |->
        IF k = "id" /\ "_id" \in DOMAIN doc
        THEN serialize_value("_id", doc["_id"])
        ELSE serialize_value(k, doc[k])]

serialize_all(docs) == [i \in 1..Len(docs) |-> serialize_doc(docs[i])]

-----------------------------------------------------------------------------
\* Requests the model draws.

Ann == Str(<<"Ann">>)
Lee == Str(<<"Lee">>)

PatientBodies ==
    {[first_name |-> Ann, last_name |-> Lee, email |-> Str(<<"ann", "@", "example.org">>),
      phone |-> Str(<<"555">>), notes |-> None],
     [first_name |-> Ann],
     [first_name |-> Ann, last_name |-> Lee, email |-> Str(<<"ann.example.org">>)]}

DoctorBodies ==
    {[first_name |-> Ann, last_name |-> Lee, department |-> Str(<<"Cardiology">>)],
     [first_name |-> Ann, last_name |-> Lee],
     [first_name |-> Ann, last_name |-> Lee, department |-> None]}

\* Identifier strings a client may send: the spelling of a store identifier, or
\* text that is not one.
NotAnId == Str(<<"abc">>)

AppointmentBase(pid, did) == [patient_id |-> pid, doctor_id |-> did, start_time |-> IsoStr(9)]

WithDuration(body, v) ==
    [k \in DOMAIN body \cup {"duration_minutes"} |->
        IF k = "duration_minutes" THEN v ELSE body[k]]

AppointmentBodies ==
    {AppointmentBase(HexStr(1), HexStr(2)), AppointmentBase(HexStr(1), HexStr(1)),
     AppointmentBase(HexStr(1), NotAnId)}
    \cup {WithDuration(AppointmentBase(NotAnId, NotAnId), v) :
            v \in {Num(duration_ge - 1), Num(duration_ge), Num(duration_le),
                   Num(duration_le + 1), Str(<<"long">>)}}
    \cup {[patient_id |-> HexStr(1), doctor_id |-> HexStr(2)],
          [patient_id |-> HexStr(1), doctor_id |-> HexStr(2), start_time |-> Str(<<"noon">>)]}

\* limit as a query parameter; limit_default stands for the omitted parameter.
Limits == {-1, 0, 1, 2, limit_default}

-----------------------------------------------------------------------------
\* Responses.

NoBody == <<>>
NoStats == [patients |-> 0, doctors |-> 0, appointments |-> 0]

Response(op, body, limit, status, detail) ==
    [op |-> op, body |-> body, limit |-> limit, status |-> status, detail |-> detail,
     errors |-> {}, id |-> None, docs |-> <<>>, stats |-> NoStats, lookups |-> 0]

\* 422 from the framework's validation of the body, before the handler runs.
RequestValidationError(op, body, errors) ==
    [Response(op, body, 0, 422, "validation error") EXCEPT !.errors = errors]

\* The response when exc leaves the handler.
Raised(op, body, limit, exc) == Response(op, body, limit, StatusOf(exc), exc.detail)

\* Worker threads of the host's pool that serve requests side by side.
Workers == {1, 2}

Idle == [pc |-> "idle", body |-> NoBody, patient_exists |-> FALSE, lookups |-> 0]

Init ==
    /\ threads = [w \in Workers |-> Idle]
    /\ db \in BOOLEAN
    /\ ObjectIdImported \in BOOLEAN
    /\ db => ObjectIdImported   \* "bson is provided by pymongo", the store client
    /\ patient = <<>>
    /\ doctor = <<>>
    /\ appointment = <<>>
    /\ nextOid = 1
    /\ issued = <<>>
    /\ last = Response("start", NoBody, 0, 0, "")

-----------------------------------------------------------------------------
\* Route handlers.

read_root ==
    /\ last' = Response("read_root", NoBody, 0, 200, "Hospital Management API is running")
    /\ UNCHANGED <<db, ObjectIdImported, patient, doctor, appointment, nextOid, issued, threads>>

test_database ==
    /\ last' = Response("test_database", NoBody, 0, 200,
                        IF db THEN "Connected & Working" ELSE "Available but not initialized")
    /\ UNCHANGED <<db, ObjectIdImported, patient, doctor, appointment, nextOid, issued, threads>>

\* create_document(name, payload) as called by a handler: the collection after the
\* call, and the handler's response {"id": str(inserted_id)}.
Created(op, name, body, doc, lookups) ==
    /\ nextOid' = nextOid + 1
    /\ issued' = Append(issued, [coll |-> name, id |-> str(doc["_id"]), body |-> body])
    /\ last' = [Response(op, body, 0, 200, "") EXCEPT !.id = str(doc["_id"]),
                                                       !.lookups = lookups]

\* Variant: the patient written over the collection's documents instead of added.
create_patient_replacing(body) ==
    /\ UNCHANGED <<db, ObjectIdImported, doctor, appointment, threads>>
    /\ IF ValidationErrors(Patient, body) # {}
       THEN /\ last' = RequestValidationError("create_patient", body,
                                              ValidationErrors(Patient, body))
            /\ UNCHANGED <<patient, nextOid, issued>>
       ELSE IF ~db
       THEN /\ last' = Raised("create_patient", body, 0, StoreUnavailable)
            /\ UNCHANGED <<patient, nextOid, issued>>
       ELSE /\ TotalDocs < MaxDocs
            /\ LET doc == NewDocument(Validated(Patient, body))
               IN  /\ patient' = <<doc>>
                   /\ Created("create_patient", "patient", body, doc, 0)

create_patient(body) ==
    /\ UNCHANGED <<db, ObjectIdImported, doctor, appointment, threads>>
    /\ IF ValidationErrors(Patient, body) # {}
       THEN /\ last' = RequestValidationError("create_patient", body,
                                              ValidationErrors(Patient, body))
            /\ UNCHANGED <<patient, nextOid, issued>>
       ELSE IF ~db
       THEN /\ last' = Raised("create_patient", body, 0, StoreUnavailable)
            /\ UNCHANGED <<patient, nextOid, issued>>
       ELSE /\ TotalDocs < MaxDocs
            /\ LET doc == NewDocument(Validated(Patient, body))
               IN  /\ patient' = Append(patient, doc)
                   /\ Created("create_patient", "patient", body, doc, 0)

\* Variant: the doctor stored under the patient collection's name.
create_doctor_into_patient(body) ==
    /\ UNCHANGED <<db, ObjectIdImported, doctor, appointment, threads>>
    /\ IF ValidationErrors(Doctor, body) # {}
       THEN /\ last' = RequestValidationError("create_doctor", body,
                                              ValidationErrors(Doctor, body))
            /\ UNCHANGED <<patient, nextOid, issued>>
       ELSE IF ~db
       THEN /\ last' = Raised("create_doctor", body, 0, StoreUnavailable)
            /\ UNCHANGED <<patient, nextOid, issued>>
       ELSE /\ TotalDocs < MaxDocs
            /\ LET doc == NewDocument(Validated(Doctor, body))
               IN  /\ patient' = Append(patient, doc)
                   /\ Created("create_doctor", "doctor", body, doc, 0)

create_doctor(body) ==
    /\ UNCHANGED <<db, ObjectIdImported, patient, appointment, threads>>
    /\ IF ValidationErrors(Doctor, body) # {}
       THEN /\ last' = RequestValidationError("create_doctor", body,
                                              ValidationErrors(Doctor, body))
            /\ UNCHANGED <<doctor, nextOid, issued>>
       ELSE IF ~db
       THEN /\ last' = Raised("create_doctor", body, 0, StoreUnavailable)
            /\ UNCHANGED <<doctor, nextOid, issued>>
       ELSE /\ TotalDocs < MaxDocs
            /\ LET doc == NewDocument(Validated(Doctor, body))
               IN  /\ doctor' = Append(doctor, doc)
                   /\ Created("create_doctor", "doctor", body, doc, 0)

\* get_documents(name, {}, limit) and the serialization of what it returns.
Listed(op, collection, limit) ==
    /\ UNCHANGED <<db, ObjectIdImported, patient, doctor, appointment, nextOid, issued, threads>>
    /\ IF ~db
       THEN last' = Raised(op, NoBody, limit, StoreUnavailable)
       ELSE \E docs \in get_documents(collection, limit) :
                last' = [Response(op, NoBody, limit, 200, "") EXCEPT
                            !.docs = serialize_all(docs)]

list_patients(limit) == Listed("list_patients", patient, limit)

list_doctors(limit) == Listed("list_doctors", doctor, limit)

list_appointments(limit) == Listed("list_appointments", appointment, limit)

\* Variant: the missing store reported as a client error.
DatabaseNotAvailable_404 == HTTPException(404, "Database not available")

\* raise HTTPException(status_code=500, detail="Database not available")
DatabaseNotAvailable == HTTPException(500, "Database not available")

\* The try block of create_appointment: the exception it raises (NoException when
\* it runs to its end) and the lookups it has made by then.
existence_check(payload) ==
    LET pid == payload.patient_id
        did == payload.doctor_id
    IN  IF ~ObjectIdImported
        THEN [raised |-> NoException, lookups |-> 0]
        ELSE IF ~ObjectId_accepts(pid)
        THEN [raised |-> InvalidId, lookups |-> 0]
        ELSE LET patient_exists == find_one(patient, ObjectId(pid))
             IN  IF ~ObjectId_accepts(did)
                 THEN [raised |-> InvalidId, lookups |-> 1]
                 ELSE LET doctor_exists == find_one(doctor, ObjectId(did))
                      IN  IF ~patient_exists
                          THEN [raised |-> HTTPException(404, "Patient not found"),
                                lookups |-> 2]
                          ELSE IF ~doctor_exists
                          THEN [raised |-> HTTPException(404, "Doctor not found"),
                                lookups |-> 2]
                          ELSE [raised |-> NoException, lookups |-> 2]

\* Variant: except HTTPException: pass
except_HTTPException(exc) == exc.class = "HTTPException"

\* except Exception: pass
except_Exception(exc) == IsInstanceOfException(exc)

create_appointment(body) ==
    /\ UNCHANGED <<db, ObjectIdImported, patient, doctor, threads>>
    /\ IF ValidationErrors(Appointment, body) # {}
       THEN /\ last' = RequestValidationError("create_appointment", body,
                                              ValidationErrors(Appointment, body))
            /\ UNCHANGED <<appointment, nextOid, issued>>
       ELSE IF ~db
       THEN /\ last' = Raised("create_appointment", body, 0, DatabaseNotAvailable)
            /\ UNCHANGED <<appointment, nextOid, issued>>
       ELSE LET payload == Validated(Appointment, body)
                check == existence_check(payload)
            IN  IF check.raised # NoException /\ ~except_Exception(check.raised)
                THEN /\ last' = [Raised("create_appointment", body, 0, check.raised)
                                    EXCEPT !.lookups = check.lookups]
                     /\ UNCHANGED <<appointment, nextOid, issued>>
                ELSE /\ TotalDocs < MaxDocs
                     /\ LET doc == NewDocument(payload)
                        IN  /\ appointment' = Append(appointment, doc)
                            /\ Created("create_appointment", "appointment", body, doc,
                                       check.lookups)

\* Variant: the doctors count read from the patient collection.
stats_counts_patient_twice ==
    [patients |-> count_documents(patient),
     doctors |-> count_documents(patient),
     appointments |-> count_documents(appointment)]

\* The counts get_stats returns.
stats_counts ==
    [patients |-> count_documents(patient),
     doctors |-> count_documents(doctor),
     appointments |-> count_documents(appointment)]

get_stats ==
    /\ UNCHANGED <<db, ObjectIdImported, patient, doctor, appointment, nextOid, issued, threads>>
    /\ IF ~db
       THEN last' = Raised("get_stats", NoBody, 0, DatabaseNotAvailable)
       ELSE last' = [Response("get_stats", NoBody, 0, 200, "") EXCEPT !.stats = stats_counts]

-----------------------------------------------------------------------------

Next ==
    \/ read_root
    \/ test_database
    \/ \E body \in PatientBodies : create_patient(body)
    \/ \E limit \in Limits : list_patients(limit)
    \/ \E body \in DoctorBodies : create_doctor(body)
    \/ \E limit \in Limits : list_doctors(limit)
    \/ \E body \in AppointmentBodies : create_appointment(body)
    \/ \E limit \in Limits : list_appointments(limit)
    \/ get_stats

Spec == Init /\ [][Next]_vars

-----------------------------------------------------------------------------
\* create_appointment store call by store call, for requests served side by side:
\* each find_one and the insert is one step of the worker thread, and other
\* threads' steps fall in between.

Shared == <<db, ObjectIdImported, patient, doctor, nextOid>>

\* Validation and the db check; the thread goes on to the try block.
appointment_received(w, body) ==
    /\ threads[w].pc = "idle"
    /\ UNCHANGED <<Shared, appointment, issued>>
    /\ IF ValidationErrors(Appointment, body) # {}
       THEN /\ last' = RequestValidationError("create_appointment", body,
                                              ValidationErrors(Appointment, body))
            /\ UNCHANGED threads
       ELSE IF ~db
       THEN /\ last' = Raised("create_appointment", body, 0, DatabaseNotAvailable)
            /\ UNCHANGED threads
       ELSE /\ threads' = [threads EXCEPT ![w] = [Idle EXCEPT !.pc = "find_patient",
                                                             !.body = body]]
            /\ UNCHANGED last

\* patient_exists = db["patient"].find_one({"_id": ObjectId(pid)}) if ObjectId else True
appointment_find_patient(w) ==
    /\ threads[w].pc = "find_patient"
    /\ UNCHANGED <<Shared, appointment, issued>>
    /\ LET pid == Validated(Appointment, threads[w].body).patient_id
       IN  IF ~ObjectIdImported
           THEN /\ threads' = [threads EXCEPT ![w].pc = "find_doctor",
                                              ![w].patient_exists = TRUE]
                /\ UNCHANGED last
           ELSE IF ~ObjectId_accepts(pid)
           THEN IF except_Exception(InvalidId)
                THEN /\ threads' = [threads EXCEPT ![w].pc = "insert"]
                     /\ UNCHANGED last
                ELSE /\ last' = Raised("create_appointment", threads[w].body, 0, InvalidId)
                     /\ threads' = [threads EXCEPT ![w] = Idle]
           ELSE /\ threads' = [threads EXCEPT ![w].pc = "find_doctor",
                                              ![w].patient_exists =
                                                  find_one(patient, ObjectId(pid)),
                                              ![w].lookups = 1]
                /\ UNCHANGED last

\* doctor_exists = ..., then the two raises and the except clause.
appointment_find_doctor(w) ==
    /\ threads[w].pc = "find_doctor"
    /\ UNCHANGED <<Shared, appointment, issued>>
    /\ LET did == Validated(Appointment, threads[w].body).doctor_id
           doctor_exists == IF ObjectIdImported THEN find_one(doctor, ObjectId(did)) ELSE TRUE
           raised == IF ObjectIdImported /\ ~ObjectId_accepts(did) THEN InvalidId
                     ELSE IF ~threads[w].patient_exists
                     THEN HTTPException(404, "Patient not found")
                     ELSE IF ~doctor_exists THEN HTTPException(404, "Doctor not found")
                     ELSE NoException
           lookups == IF ObjectIdImported /\ ObjectId_accepts(did)
                      THEN threads[w].lookups + 1 ELSE threads[w].lookups
       IN  IF raised # NoException /\ ~except_Exception(raised)
           THEN /\ last' = [Raised("create_appointment", threads[w].body, 0, raised)
                               EXCEPT !.lookups = lookups]
                /\ threads' = [threads EXCEPT ![w] = Idle]
           ELSE /\ threads' = [threads EXCEPT ![w].pc = "insert", ![w].lookups = lookups]
                /\ UNCHANGED last

\* appt_id = create_document("appointment", payload); return {"id": appt_id}
appointment_insert(w) ==
    /\ threads[w].pc = "insert"
    /\ UNCHANGED <<db, ObjectIdImported, patient, doctor>>
    /\ TotalDocs < MaxDocs
    /\ LET doc == NewDocument(Validated(Appointment, threads[w].body))
       IN  /\ appointment' = Append(appointment, doc)
           /\ Created("create_appointment", "appointment", threads[w].body, doc,
                      threads[w].lookups)
    /\ threads' = [threads EXCEPT ![w] = Idle]

\* The requests drawn while threads interleave: one valid body per collection, an
\* appointment with a malformed reference, and one the schema refuses.
ConcPatientBodies == {b \in PatientBodies : ValidationErrors(Patient, b) = {}}
ConcDoctorBodies == {b \in DoctorBodies : ValidationErrors(Doctor, b) = {}}
ConcAppointmentBodies ==
    {AppointmentBase(HexStr(1), HexStr(2)), AppointmentBase(HexStr(1), NotAnId),
     WithDuration(AppointmentBase(NotAnId, NotAnId), Num(duration_ge)),
     [patient_id |-> HexStr(1), doctor_id |-> HexStr(2)]}

ConcNext ==
    \/ \E body \in ConcPatientBodies : create_patient(body)
    \/ \E body \in ConcDoctorBodies : create_doctor(body)
    \/ \E w \in Workers, body \in ConcAppointmentBodies : appointment_received(w, body)
    \/ \E w \in Workers : appointment_find_patient(w)
    \/ \E w \in Workers : appointment_find_doctor(w)
    \/ \E w \in Workers : appointment_insert(w)

ConcSpec == Init /\ [][ConcNext]_vars

-----------------------------------------------------------------------------
\* Properties.

\* The body of the request just served is a valid appointment whose two references
\* are both well-formed / is one with a malformed reference.
ServedAppointment(r) ==
    /\ r.op = "create_appointment"
    /\ ValidationErrors(Appointment, r.body) = {}

WellFormedRefs(body) == ObjectId_accepts(body.patient_id) /\ ObjectId_accepts(body.doctor_id)

PatientExists(body) == find_one(patient, ObjectId(body.patient_id))
DoctorExists(body) == find_one(doctor, ObjectId(body.doctor_id))

\* C1: with the store available, a POST /appointments whose patient_id and
\* doctor_id are both well-formed and whose patient or doctor is absent is
\* answered 404 and adds no appointment.
C1_MissingReferenceIs404 ==
    [][(/\ db /\ ObjectIdImported
        /\ ServedAppointment(last')
        /\ WellFormedRefs(last'.body)
        /\ (~PatientExists(last'.body) \/ ~DoctorExists(last'.body)))
       => (last'.status = 404 /\ appointment' = appointment)]_vars

\* C2: with the store available, a POST /appointments whose patient_id or doctor_id
\* is not a well-formed reference is answered 200 with an id, raises no NotFound,
\* and appends exactly one appointment, whatever the patient and doctor
\* collections hold.
C2_MalformedReferenceInserts ==
    [][(/\ db
        /\ ServedAppointment(last')
        /\ ~WellFormedRefs(last'.body))
       => (/\ last'.status = 200
           /\ ObjectId_accepts(last'.id)
           /\ last'.lookups <= 1
           /\ Len(appointment') = Len(appointment) + 1
           /\ SubSeq(appointment', 1, Len(appointment)) = appointment
           /\ str(appointment'[Len(appointment')]["_id"]) = last'.id
           /\ patient' = patient /\ doctor' = doctor)]_vars

\* C2 witness: a doctor_id that is not a reference, the patient on file, answered 200.
C2_Witness ==
    /\ last.op = "create_appointment" /\ last.status = 200
    /\ last.body.patient_id = HexStr(1) /\ last.body.doctor_id = NotAnId
    /\ find_one(patient, ObjectIdValue(1))
    /\ last.lookups = 1

Returned(name) == Cardinality({i \in 1..Len(issued) : issued[i].coll = name})

\* C3: with the store available, GET /stats answers exactly the numbers of
\* POST /patients, /doctors and /appointments that have returned an id so far.
C3_StatsCountReturnedIds ==
    (db /\ last.op = "get_stats")
    => /\ last.status = 200
       /\ last.stats = [patients |-> Returned("patient"),
                        doctors |-> Returned("doctor"),
                        appointments |-> Returned("appointment")]

\* C3 witness: stats served after creates in two collections, unequal counts.
C3_Witness ==
    /\ last.op = "get_stats" /\ last.status = 200
    /\ last.stats.patients = 2 /\ last.stats.doctors = 0 /\ last.stats.appointments = 1

\* What a client sees as wrong in a body, stated without the schema objects: a
\* required field omitted or null, a malformed e-mail, a duration that is no
\* integer of 5..240, a start_time that is no date-time.
RequiredOf(op) ==
    CASE op = "create_patient" -> {"first_name", "last_name"}
      [] op = "create_doctor" -> {"first_name", "last_name", "department"}
      [] op = "create_appointment" -> {"patient_id", "doctor_id", "start_time"}
      [] OTHER -> {}

BadField(body, k) ==
    /\ k \in DOMAIN body
    /\ CASE k = "email" -> body[k].t = "str" /\ ~IsEmail(body[k].s)
         [] k = "duration_minutes" -> body[k].t # "int" \/ body[k].n < 5 \/ body[k].n > 240
         [] k = "start_time" -> body[k].t # "str" \/ body[k].s # <<"iso8601">>
         [] OTHER -> FALSE

FailsSchema(op, body) ==
    \/ \E k \in RequiredOf(op) : k \notin DOMAIN body \/ body[k].t = "null"
    \/ \E k \in {"email", "duration_minutes", "start_time"} : BadField(body, k)

Creates == {"create_patient", "create_doctor", "create_appointment"}

\* C4: a create request whose body fails schema validation is answered with a
\* client validation error naming a field, and the three collections are left as
\* they were.
C4_InvalidBodyRejected ==
    [][(last'.op \in Creates /\ FailsSchema(last'.op, last'.body))
       => (/\ last'.status = 422
           /\ last'.errors # {}
           /\ last'.id = None
           /\ patient' = patient /\ doctor' = doctor /\ appointment' = appointment
           /\ issued' = issued)]_vars

\* C4 witness: a doctor without department refused while the store holds documents.
C4_Witness ==
    /\ last.op = "create_doctor" /\ last.status = 422
    /\ "department" \in last.errors
    /\ "department" \notin DOMAIN last.body
    /\ TotalDocs > 0

\* C5: POST /appointments refuses a duration_minutes below 5 or above 240, accepts 5
\* and 240, stores 30 when the field is omitted, and every stored appointment has a
\* duration_minutes of 5..240.
C5_DurationWithinBounds ==
    /\ \A i \in 1..Len(appointment) :
          /\ appointment[i].duration_minutes.t = "int"
          /\ appointment[i].duration_minutes.n >= 5
          /\ appointment[i].duration_minutes.n <= 240
    /\ (last.op = "create_appointment" /\ "duration_minutes" \in DOMAIN last.body)
       => IF \/ last.body.duration_minutes.t # "int"
             \/ last.body.duration_minutes.n < 5 \/ last.body.duration_minutes.n > 240
          THEN last.status = 422 /\ "duration_minutes" \in last.errors
          ELSE "duration_minutes" \notin last.errors
    /\ (/\ last.op = "create_appointment" /\ last.status = 200
        /\ "duration_minutes" \notin DOMAIN last.body)
       => appointment[Len(appointment)].duration_minutes = Num(30)
    /\ (/\ last.op = "create_appointment" /\ last.status = 200
        /\ "duration_minutes" \in DOMAIN last.body)
       => appointment[Len(appointment)].duration_minutes = last.body.duration_minutes

\* C5 witness: both boundary durations stored, and one appointment with the default.
C5_Witness ==
    /\ \E i \in 1..Len(appointment) : appointment[i].duration_minutes = Num(5)
    /\ \E i \in 1..Len(appointment) : appointment[i].duration_minutes = Num(240)
    /\ \E i \in 1..Len(appointment) : appointment[i].duration_minutes = Num(30)

Lists == {"list_patients", "list_doctors", "list_appointments"}

CollectionOf(op) ==
    CASE op \in {"list_patients", "create_patient"} -> patient
      [] op \in {"list_doctors", "create_doctor"} -> doctor
      [] op \in {"list_appointments", "create_appointment"} -> appointment

\* C6: a list request with limit N answers with at most N records, each a record of
\* the collection listed.
C6_AtMostLimitRecords ==
    (last.op \in Lists /\ last.status = 200)
    => /\ Len(last.docs) <= last.limit
       /\ \A j \in 1..Len(last.docs) :
             \E i \in 1..Len(CollectionOf(last.op)) :
                last.docs[j] = serialize_doc(CollectionOf(last.op)[i])

SchemaOf(name) == IF name = "patient" THEN Patient ELSE Doctor

\* A listed record r is what the create of history entry e sent, plus id.
RoundTrips(e, r) ==
    /\ "id" \in DOMAIN r
    /\ r.id = e.id
    /\ DOMAIN r = DOMAIN SchemaOf(e.coll) \cup {"id"}
    /\ \A k \in DOMAIN e.body : r[k] = e.body[k]
    /\ \A k \in DOMAIN SchemaOf(e.coll) \ DOMAIN e.body : r[k] = None

C8_NoConnectionIs500 ==
    ~db => /\ patient = <<>> /\ doctor = <<>> /\ appointment = <<>> /\ issued = <<>>
           /\ ServedAppointment(last)
              => (last.status = 500 /\ last.lookups = 0 /\ last.id = None)
           /\ last.op = "get_stats" => (last.status = 500 /\ last.stats = NoStats)

\* C8 witness: a valid appointment refused for want of a connection.
C8_Witness ==
    /\ ~db /\ ServedAppointment(last) /\ last.status = 500
    /\ last.detail = "Database not available"

IssuedIds == {issued[i].id : i \in 1..Len(issued)}

Kept(before, after) ==
    /\ Len(after) >= Len(before)
    /\ \A i \in 1..Len(before) : after[i] = before[i]

\* C9: every create that returns an id returns one that no earlier create returned,
\* and every record of a collection is in it, unchanged, in every later state.
C9_IdsFreshRecordsKept ==
    [][/\ Kept(patient, patient') /\ Kept(doctor, doctor') /\ Kept(appointment, appointment')
       /\ Kept(issued, issued')
       /\ issued' # issued
          => (/\ Len(issued') = Len(issued) + 1
              /\ issued'[Len(issued')].id = last'.id
              /\ last'.id \notin IssuedIds
              /\ LET after == CASE last'.op = "create_patient" -> patient'
                                 [] last'.op = "create_doctor" -> doctor'
                                 [] OTHER -> appointment'
                 IN  str(after[Len(after)]["_id"]) = last'.id)]_vars

\* C9 witness: a request in flight across two creates of other threads (its lookup
\* found no patient 1, who is on file by now), after an appointment of its own kind
\* was stored: three ids issued, all different, the first record still first.
C9_Witness ==
    /\ threads[1].pc = "insert" /\ threads[1].lookups = 2 /\ ~threads[1].patient_exists
    /\ find_one(patient, ObjectIdValue(1))
    /\ Len(issued) = 2 /\ Cardinality(IssuedIds) = 2
    /\ Len(patient) = 1 /\ Len(appointment) = 1
    /\ str(patient[1]["_id"]) = issued[1].id

Reads == Lists \cup {"read_root", "test_database", "get_stats"}

\* C10: the read routes leave the three collections as they are; a POST /patients
\* that succeeds changes the patient collection alone and a POST /doctors the doctor
\* collection alone; POST /appointments never changes the patient or doctor
\* collection and adds at most one appointment.
C10_Frame ==
    [][/\ last'.op \in Reads
          => (patient' = patient /\ doctor' = doctor /\ appointment' = appointment)
       /\ (last'.op = "create_patient" /\ last'.status = 200)
          => (/\ doctor' = doctor /\ appointment' = appointment
              /\ Len(patient') = Len(patient) + 1)
       /\ (last'.op = "create_doctor" /\ last'.status = 200)
          => (/\ patient' = patient /\ appointment' = appointment
              /\ Len(doctor') = Len(doctor) + 1)
       /\ last'.op = "create_appointment"
          => (/\ patient' = patient /\ doctor' = doctor
              /\ Kept(appointment, appointment')
              /\ Len(appointment') <= Len(appointment) + 1)]_vars

\* C10 witness: an appointment created after both lookups, patient and doctor on file.
C10_Witness ==
    /\ last.op = "create_appointment" /\ last.status = 200 /\ last.lookups = 2
    /\ Len(patient) = 1 /\ Len(doctor) = 1 /\ Len(appointment) = 1

====
